---- MODULE Spec2Model ----
(***************************************************************************)
(* The library plugin of eliza-library (src/src/plugins/libgen/index.ts):  *)
(* the two action handlers LIBRARY_SEARCH and LIBRARY_DOWNLOAD, as a state *)
(* machine whose steps are the stretches of a handler between two awaits.  *)
(*                                                                         *)
(* JavaScript strings are sequences of tokens (a token is a TLA+ string:   *)
(* one character of a message text, or one literal piece of a template).   *)
(* The value undefined is the one-token sequence Undefined, the empty      *)
(* string is << >>.                                                        *)
(***************************************************************************)
EXTENDS Integers, Sequences, FiniteSets, TLC

(***************************************************************************)
(* Bounds of the model.                                                    *)
(***************************************************************************)
MaxSegs  == 2   \* a message text is made of at most MaxSegs segments
MaxBooks == 2   \* books in one search response
MaxLinks == 2   \* links in one download response

(***************************************************************************)
(* Program constants.                                                      *)
(***************************************************************************)
HashLen == 32   \* the {32} of /[a-f0-9]{32}/
OkLow   == 200  \* Response.ok: 200 <= status <= 299
OkHigh  == 299

RAPID_API_HOST == "annas-archive-api.p.rapidapi.com"

Undefined == <<"undefined">>

\* !v of JavaScript for a string or undefined
Falsy(v) == v = Undefined \/ v = << >>

RECURSIVE Run(_, _)
Run(c, n) == IF n = 0 THEN << >> ELSE <<c>> \o Run(c, n - 1)

RECURSIVE Flatten(_)
Flatten(ss) == IF ss = << >> THEN << >> ELSE Head(ss) \o Flatten(Tail(ss))

(***************************************************************************)
(* message.content.text                                                    *)
(***************************************************************************)
HexChars ==
    { "a", "b", "c", "d", "e", "f",
      "0", "1", "2", "3", "4", "5", "6", "7", "8", "9" }

Segments ==
    { <<"F">>, <<"0">>, Run("a", HashLen - 1), Run("b", HashLen) }

Texts ==
    { Flatten(ss) : ss \in UNION { [1..n -> Segments] : n \in 0..MaxSegs } }

MessageTexts == Texts \cup {Undefined}

\* the texts tried when the host runtime may fail too
FewTexts == { Undefined, <<"F">>, Run("b", HashLen) }

\* text.match(/[a-f0-9]{32}/)?.[0]: the leftmost run of HashLen hex characters
IsHashAt(text, i) ==
    /\ i + HashLen - 1 <= Len(text)
    /\ \A j \in i..(i + HashLen - 1) : text[j] \in HexChars

MatchStarts(text) == { i \in 1..Len(text) : IsHashAt(text, i) }

Min(S) == CHOOSE x \in S : \A y \in S : x <= y
Max(S) == CHOOSE x \in S : \A y \in S : x >= y

\* the last run taken instead of the first
MatchLast(text) ==
    IF MatchStarts(text) = {} THEN Undefined
    ELSE SubSeq(text, Max(MatchStarts(text)), Max(MatchStarts(text)) + HashLen - 1)

DirectHash(text) ==
    IF MatchStarts(text) = {} THEN Undefined
    ELSE SubSeq(text, Min(MatchStarts(text)), Min(MatchStarts(text)) + HashLen - 1)

(***************************************************************************)
(* Errors: what a throw statement or a rejected promise carries.  The host *)
(* may reject with no reason at all, and then the catch block is handed    *)
(* undefined.                                                              *)
(***************************************************************************)
Error(msg) == [nullish |-> FALSE, message |-> msg]

NullishThrow == [nullish |-> TRUE, message |-> << >>]

TypeError(what) == Error(<<"Cannot read properties of ", what>>)

NotAFunction(what) == Error(<<what, " is not a function">>)

HostError == Error(<<"host failure">>)

CallbackError == Error(<<"callback failed">>)

NetworkError == Error(<<"fetch failed">>)

ModelError == Error(<<"model failure">>)

NoSearchTerm == Error(<<"No search term found in response">>)

IdentifierNotFound ==
    Error(<<"Could not find the MD5 hash for the requested book">>)

ResponseParseError == Error(<<"Failed to parse API response: ", "SyntaxError">>)

(***************************************************************************)
(* The extractor's results (generateObjectDeprecated).                     *)
(***************************************************************************)
Content(isNull, searchTerm, md5, title, author) ==
    [ isNull |-> isNull, searchTerm |-> searchTerm, md5 |-> md5,
      title |-> title, author |-> author ]

NullContent == Content(TRUE, Undefined, Undefined, Undefined, Undefined)

SearchTerms == { <<"machine", " ", "learning">>, <<"superintelligence">> }

SearchContents ==
    { NullContent,
      Content(FALSE, Undefined, Undefined, Undefined, Undefined),
      Content(FALSE, << >>, Undefined, Undefined, Undefined) }
    \cup { Content(FALSE, t, Undefined, Undefined, Undefined) : t \in SearchTerms }

ExtractedHash == Run("c", HashLen)

DownloadContents ==
    { NullContent,
      Content(FALSE, Undefined, Undefined, <<"Superintelligence">>, <<"Nick Bostrom">>),
      Content(FALSE, Undefined, << >>, <<"Superintelligence">>, <<"Nick Bostrom">>),
      Content(FALSE, Undefined, ExtractedHash, <<"Superintelligence">>, <<"Nick Bostrom">>),
      Content(FALSE, Undefined, ExtractedHash, Undefined, Undefined),
      Content(FALSE, Undefined, <<"n", "o", "t", "a", "h", "a", "s", "h">>,
              <<"Superintelligence">>, Undefined) }

\* content?.field
Field(answer, value) == IF answer.isNull THEN Undefined ELSE value

(***************************************************************************)
(* The responses of the external service: AnnaArchiveBook,                 *)
(* AnnaArchiveResponse, the array of links, and what else a JSON body may  *)
(* hold (null, an error object).                                           *)
(***************************************************************************)
Books ==
    { [ title |-> "Superintelligence", author |-> "Nick Bostrom",
        md5 |-> "8fd5a47e020c1e95c54bffa00cbf5484", size |-> "1MB",
        genre |-> "nonfiction", format |-> "pdf", year |-> "2014" ],
      [ title |-> "Deep Learning", author |-> "",
        md5 |-> "5b723c172fc4c8a77f476e7016ad3945", size |-> "2MB",
        genre |-> "", format |-> "epub", year |-> "" ] }

\* "total" of a search response: the matches the service has, however many
\* of them it returns
Totals == { 2, 57 }

Links == { "http://a", "http://b" }

SeqsUpTo(S, n) == UNION { [1..k -> S] : k \in 0..n }

Json(kind, message, total, books, links) ==
    [ kind |-> kind, message |-> message, total |-> total,
      books |-> books, links |-> links ]

JNull == Json("null", "", 0, << >>, << >>)

JError == Json("error", "Too many requests", 0, << >>, << >>)

JResult(total, books) == Json("result", "", total, books, << >>)

JArray(links) == Json("array", "", 0, << >>, links)

JsonValues ==
    { JNull, JError }
    \cup { JResult(t, bs) : t \in Totals, bs \in SeqsUpTo(Books, MaxBooks) }
    \cup { JArray(ls) : ls \in SeqsUpTo(Links, MaxLinks) }

RECURSIVE Join(_, _)
Join(parts, sep) ==
    IF parts = << >> THEN << >>
    ELSE IF Len(parts) = 1 THEN parts[1]
    ELSE parts[1] \o sep \o Join(Tail(parts), sep)

StringifyBook(book) ==
    << "{\"title\":\"", book.title, "\",\"author\":\"", book.author,
       "\",\"md5\":\"", book.md5, "\",\"size\":\"", book.size,
       "\",\"genre\":\"", book.genre, "\",\"format\":\"", book.format,
       "\",\"year\":\"", book.year, "\"}" >>

\* JSON.stringify
Stringify(v) ==
    CASE v.kind = "null"   -> <<"null">>
      [] v.kind = "error"  -> <<"{\"message\":\"", v.message, "\"}">>
      [] v.kind = "result" ->
            <<"{\"total\":", ToString(v.total), ",\"books\":[">>
            \o Join([i \in 1..Len(v.books) |-> StringifyBook(v.books[i])], <<",">>)
            \o <<"]}">>
      [] v.kind = "array"  ->
            <<"[">>
            \o Join([i \in 1..Len(v.links) |-> <<"\"", v.links[i], "\"">>], <<",">>)
            \o <<"]">>

\* bodies that are no JSON: an empty body, an HTML error page, a cut-off body
Garbage == { << >>, <<"<html>">>, <<"{\"total\":">> }

ResponseTexts == { Stringify(v) : v \in JsonValues } \cup Garbage

Statuses == { OkLow, OkHigh, OkHigh + 1, 404 }

\* response.ok taken as "no client or server error": a redirect passes
OkBelow400(status) == OkLow <= status /\ status < 400

\* response.ok
Ok(status) == OkLow <= status /\ status <= OkHigh

\* JSON.parse: the value the text is the serialization of, or a SyntaxError
JSONParse(text) ==
    IF \E v \in JsonValues : Stringify(v) = text
    THEN [ok |-> TRUE, value |-> CHOOSE v \in JsonValues : Stringify(v) = text]
    ELSE [ok |-> FALSE, value |-> JNull]

(***************************************************************************)
(* The texts the handlers build.                                           *)
(***************************************************************************)
ConfigurationError == <<"Error: RAPID_API_KEY is not configured">>

NoResults ==
    <<"No results found. Try modifying your search terms or using fewer filters.">>

NoLinks == <<"No download links found for this book.">>

SearchApology(error) ==
    <<"Sorry, I'm having trouble with the search: ">> \o error.message

DownloadApology(error) ==
    <<"Sorry, I'm having trouble getting the download links: ">> \o error.message

APIError(status, data) ==
    Error(<<"API request failed with status ", ToString(status), ": ">>
          \o Stringify(data))

StatusReply(answer) ==
    <<"Downloading \"">> \o answer.title \o <<"\" by ">> \o answer.author
    \o <<"...">>

RenderBook(book) ==
    <<"\"", book.title, "\"">>
    \o (IF book.author # "" THEN <<" by ", book.author>> ELSE << >>)
    \o (IF book.year # "" THEN <<" (", book.year, ")">> ELSE << >>)
    \o <<"\n", "Format: ", book.format, ", Size: ", book.size, ", Genre: ",
         IF book.genre # "" THEN book.genre ELSE "Unknown", "\n",
         "MD5: ", book.md5>>

\* the heading counting the books at hand instead of reporting data.total
RenderSearchResultsCounted(data) ==
    <<"Found ", ToString(Len(data.books)), " books. Here are the top ",
      ToString(Len(data.books)), " results:", "\n\n">>
    \o Join([i \in 1..Len(data.books) |-> RenderBook(data.books[i])], <<"\n\n">>)
    \o <<"\n\n", "To download a book, ask me using its MD5 hash.">>

RenderSearchResults(data) ==
    <<"Found ", ToString(data.total), " books. Here are the top ",
      ToString(Len(data.books)), " results:", "\n\n">>
    \o Join([i \in 1..Len(data.books) |-> RenderBook(data.books[i])], <<"\n\n">>)
    \o <<"\n\n", "To download a book, ask me using its MD5 hash.">>

RenderDownloadLinks(links) ==
    <<"Here are the download links for the book:", "\n\n">>
    \o Join([i \in 1..Len(links) |-> <<ToString(i), ". ", links[i]>>], <<"\n">>)

\* URLSearchParams.toString: a space is written "+"
Encode(term) == [i \in 1..Len(term) |-> IF term[i] = " " THEN "+" ELSE term[i]]

SearchUrl(term) ==
    <<"https://", RAPID_API_HOST, "/search?", "q=">> \o Encode(term)
    \o <<"&limit=", "10", "&sort=", "mostRelevant">>

DownloadUrlPrefix == <<"https://", RAPID_API_HOST, "/download?md5=">>

DownloadUrl(hash) == DownloadUrlPrefix \o hash

(***************************************************************************)
(* State.  RAPID_API_KEY is read once when the module is loaded.  The rest *)
(* belongs to the handler invocation in progress: which action runs, its   *)
(* message text, the await it is suspended at, the extractor's answer, the *)
(* resolved hash, the status and the body of the response, the calls it    *)
(* has made to its collaborators (in order), and the error its catch block *)
(* was entered with.  content, responseText and caught are << >> until     *)
(* they are assigned, and hold the one value afterwards.  No variable      *)
(* outlives an invocation, so one invocation from the idle state is every  *)
(* invocation.                                                             *)
(***************************************************************************)
VARIABLES RAPID_API_KEY, handler, message, pc, content, md5, apiResponse,
          responseText, calls, caught

vars ==
    <<RAPID_API_KEY, handler, message, pc, content, md5, apiResponse,
      responseText, calls, caught>>

KeyValues == { Undefined, << >>, <<"secret">> }

\* callback({...}) returns, throws, or returns a promise that rejects later
CallbackOutcomes == { "ok", "throw", "reject" }

Finished == { "returned", "rejected" }

Call(fn, arg, outcome) == [fn |-> fn, arg |-> arg, outcome |-> outcome]

Init ==
    /\ RAPID_API_KEY \in KeyValues
    /\ handler = "none"
    /\ message = Undefined
    /\ pc = "idle"
    /\ content = << >>
    /\ md5 = Undefined
    /\ apiResponse = 0
    /\ responseText = << >>
    /\ calls = << >>
    /\ caught = << >>

\* how one stretch of a handler ends: where it is next, with what log
Outcome(next, log, error) == [pc |-> next, calls |-> log, caught |-> error]

End(o) ==
    /\ pc' = o.pc
    /\ calls' = o.calls
    /\ caught' = o.caught

\* a catch block that logs and gives no reply
CatchSwallow(apology, log, error, cb2) == Outcome("returned", log, <<error>>)

\* the catch block: log, then callback({ text: `Sorry, ...${error.message}` })
Catch(apology, log, error, cb2) ==
    IF error.nullish
    THEN Outcome("rejected", log, <<error>>)
    ELSE Outcome(IF cb2 = "throw" THEN "rejected" ELSE "returned",
                 Append(log, Call("callback", apology, cb2)), <<error>>)

SearchCatch(log, error, cb2) == Catch(SearchApology(error), log, error, cb2)

DownloadCatch(log, error, cb2) == Catch(DownloadApology(error), log, error, cb2)

(***************************************************************************)
(* LIBRARY_SEARCH                                                          *)
(***************************************************************************)
\* validate: !!message.content?.text
SearchValidate(text) == ~Falsy(text)

\* the handler is entered: the credential check, then state composition
SearchHandler(text, hasState, cb, cb2) ==
    /\ pc = "idle"
    /\ SearchValidate(text)
    /\ handler' = "LIBRARY_SEARCH"
    /\ message' = text
    /\ UNCHANGED <<content, md5, apiResponse, responseText>>
    /\ IF Falsy(RAPID_API_KEY)
       THEN LET log == <<Call("callback", ConfigurationError, cb)>>
            IN  End(IF cb = "throw"
                    THEN SearchCatch(log, CallbackError, cb2)
                    ELSE Outcome("returned", log, << >>))
       ELSE End(Outcome("composeState",
                        <<Call(IF hasState THEN "updateRecentMessageState"
                                           ELSE "composeState", << >>, "called")>>,
                        << >>))
    /\ UNCHANGED RAPID_API_KEY

\* the state is there: composeContext, then generateObjectDeprecated is called
SearchStateComposed ==
    /\ handler = "LIBRARY_SEARCH"
    /\ pc = "composeState"
    /\ End(Outcome("generateObject",
                   Append(calls, Call("generateObjectDeprecated",
                                      <<"SEARCH_TEMPLATE">> \o message, "called")),
                   << >>))
    /\ UNCHANGED <<RAPID_API_KEY, handler, message, content, md5, apiResponse, responseText>>

\* runtime.composeState or runtime.updateRecentMessageState rejects
SearchStateRejects(error, cb2) ==
    /\ handler = "LIBRARY_SEARCH"
    /\ pc = "composeState"
    /\ End(SearchCatch(calls, error, cb2))
    /\ UNCHANGED <<RAPID_API_KEY, handler, message, content, md5, apiResponse, responseText>>

\* the extractor answered: the search term is checked and the search is sent
SearchExtracted(answer, cb2) ==
    /\ handler = "LIBRARY_SEARCH"
    /\ pc = "generateObject"
    /\ content' = <<answer>>
    /\ IF Falsy(Field(answer, answer.searchTerm))
       THEN End(SearchCatch(calls, NoSearchTerm, cb2))
       ELSE End(Outcome("fetch",
                        Append(calls, Call("fetch", SearchUrl(answer.searchTerm),
                                           "called")),
                        << >>))
    /\ UNCHANGED <<RAPID_API_KEY, handler, message, md5, apiResponse, responseText>>

\* generateObjectDeprecated rejects
SearchExtractRejects(cb2) ==
    /\ handler = "LIBRARY_SEARCH"
    /\ pc = "generateObject"
    /\ End(SearchCatch(calls, ModelError, cb2))
    /\ UNCHANGED <<RAPID_API_KEY, handler, message, content, md5, apiResponse, responseText>>

\* fetch resolved with a response: its body is asked for
SearchFetched(status) ==
    /\ handler = "LIBRARY_SEARCH"
    /\ pc = "fetch"
    /\ apiResponse' = status
    /\ pc' = "text"
    /\ UNCHANGED <<RAPID_API_KEY, handler, message, content, md5, responseText, calls, caught>>

\* fetch rejects
SearchFetchRejects(cb2) ==
    /\ handler = "LIBRARY_SEARCH"
    /\ pc = "fetch"
    /\ End(SearchCatch(calls, NetworkError, cb2))
    /\ UNCHANGED <<RAPID_API_KEY, handler, message, content, md5, apiResponse, responseText>>

\* the status looked at before the body is parsed
SearchRespondStatusFirst(log, status, body, cb, cb2) ==
    LET parsed == JSONParse(body)
        data   == parsed.value
    IN  IF ~Ok(status)
        THEN SearchCatch(log, APIError(status, data), cb2)
        ELSE IF ~parsed.ok
        THEN SearchCatch(log, ResponseParseError, cb2)
        ELSE IF data.kind = "null"
        THEN SearchCatch(log, TypeError("null (reading 'books')"), cb2)
        ELSE LET text == IF data.kind # "result" \/ Len(data.books) = 0
                         THEN NoResults
                         ELSE RenderSearchResults(data)
                 log1 == Append(log, Call("callback", text, cb))
             IN  IF cb = "throw"
                 THEN SearchCatch(log1, CallbackError, cb2)
                 ELSE Outcome("returned", log1, << >>)

\* the return after the "no results" reply left out: the list is rendered too
SearchRespondNoReturn(log, status, body, cb, cb2) ==
    LET parsed == JSONParse(body)
        data   == parsed.value
    IN  IF ~parsed.ok
        THEN SearchCatch(log, ResponseParseError, cb2)
        ELSE IF ~Ok(status)
        THEN SearchCatch(log, APIError(status, data), cb2)
        ELSE IF data.kind = "null"
        THEN SearchCatch(log, TypeError("null (reading 'books')"), cb2)
        ELSE IF data.kind # "result"
        THEN LET log1 == Append(log, Call("callback", NoResults, cb))
             IN  IF cb = "throw"
                 THEN SearchCatch(log1, CallbackError, cb2)
                 ELSE SearchCatch(log1, TypeError("undefined (reading 'map')"), cb2)
        ELSE LET log1 == IF Len(data.books) = 0
                         THEN Append(log, Call("callback", NoResults, cb))
                         ELSE log
                 log2 == Append(log1, Call("callback", RenderSearchResults(data), cb))
             IN  IF cb = "throw"
                 THEN SearchCatch(IF Len(data.books) = 0 THEN log1 ELSE log2,
                                  CallbackError, cb2)
                 ELSE Outcome("returned", log2, << >>)

\* what the handler does with the body, from JSON.parse to the reply
SearchRespond(log, status, body, cb, cb2) ==
    LET parsed == JSONParse(body)
        data   == parsed.value
    IN  IF ~parsed.ok
        THEN SearchCatch(log, ResponseParseError, cb2)
        ELSE IF ~Ok(status)
        THEN SearchCatch(log, APIError(status, data), cb2)
        ELSE IF data.kind = "null"
        THEN SearchCatch(log, TypeError("null (reading 'books')"), cb2)
        ELSE LET text == IF data.kind # "result" \/ Len(data.books) = 0
                         THEN NoResults
                         ELSE RenderSearchResults(data)
                 log1 == Append(log, Call("callback", text, cb))
             IN  IF cb = "throw"
                 THEN SearchCatch(log1, CallbackError, cb2)
                 ELSE Outcome("returned", log1, << >>)

\* the body arrived
SearchBodyRead(body, cb, cb2) ==
    /\ handler = "LIBRARY_SEARCH"
    /\ pc = "text"
    /\ responseText' = <<body>>
    /\ End(SearchRespond(calls, apiResponse, body, cb, cb2))
    /\ UNCHANGED <<RAPID_API_KEY, handler, message, content, md5, apiResponse>>

(***************************************************************************)
(* LIBRARY_DOWNLOAD                                                        *)
(***************************************************************************)
\* validate: return true
DownloadValidate(text) == TRUE

\* the handler without its credential check
DownloadHandlerNoKeyCheck(text, hasState, cb, cb2) ==
    /\ pc = "idle"
    /\ DownloadValidate(text)
    /\ handler' = "LIBRARY_DOWNLOAD"
    /\ message' = text
    /\ UNCHANGED <<content, md5, apiResponse, responseText>>
    /\ End(Outcome("composeState",
                   <<Call(IF hasState THEN "updateRecentMessageState"
                                      ELSE "composeState", << >>, "called")>>,
                   << >>))
    /\ UNCHANGED RAPID_API_KEY

DownloadHandler(text, hasState, cb, cb2) ==
    /\ pc = "idle"
    /\ DownloadValidate(text)
    /\ handler' = "LIBRARY_DOWNLOAD"
    /\ message' = text
    /\ UNCHANGED <<content, md5, apiResponse, responseText>>
    /\ IF Falsy(RAPID_API_KEY)
       THEN LET log == <<Call("callback", ConfigurationError, cb)>>
            IN  End(IF cb = "throw"
                    THEN DownloadCatch(log, CallbackError, cb2)
                    ELSE Outcome("returned", log, << >>))
       ELSE End(Outcome("composeState",
                        <<Call(IF hasState THEN "updateRecentMessageState"
                                           ELSE "composeState", << >>, "called")>>,
                        << >>))
    /\ UNCHANGED RAPID_API_KEY

\* the state is there: the hash is looked for in the text; with one the
\* download is sent, without one generateObjectDeprecated is called
DownloadStateComposed(cb2) ==
    /\ handler = "LIBRARY_DOWNLOAD"
    /\ pc = "composeState"
    /\ IF message = Undefined
       THEN /\ End(DownloadCatch(calls, TypeError("undefined (reading 'match')"), cb2))
            /\ md5' = md5
       ELSE IF ~Falsy(DirectHash(message))
       THEN /\ md5' = DirectHash(message)
            /\ End(Outcome("fetch",
                           Append(calls, Call("fetch", DownloadUrl(DirectHash(message)),
                                              "called")),
                           << >>))
       ELSE /\ md5' = md5
            /\ End(Outcome("generateObject",
                           Append(calls, Call("generateObjectDeprecated",
                                              <<"DOWNLOAD_TEMPLATE">>, "called")),
                           << >>))
    /\ UNCHANGED <<RAPID_API_KEY, handler, message, content, apiResponse, responseText>>

DownloadStateRejects(error, cb2) ==
    /\ handler = "LIBRARY_DOWNLOAD"
    /\ pc = "composeState"
    /\ End(DownloadCatch(calls, error, cb2))
    /\ UNCHANGED <<RAPID_API_KEY, handler, message, content, md5, apiResponse, responseText>>

\* only a missing answer is refused: an answer without md5 is used as it is
DownloadExtractedUnchecked(answer, cb, cb2) ==
    /\ handler = "LIBRARY_DOWNLOAD"
    /\ pc = "generateObject"
    /\ content' = <<answer>>
    /\ IF answer.isNull
       THEN /\ End(DownloadCatch(calls, IdentifierNotFound, cb2))
            /\ md5' = md5
       ELSE LET log1 == Append(calls, Call("callback", StatusReply(answer), cb))
            IN  /\ md5' = answer.md5
                /\ IF cb = "throw"
                   THEN End(DownloadCatch(log1, CallbackError, cb2))
                   ELSE End(Outcome("fetch",
                                    Append(log1, Call("fetch", DownloadUrl(answer.md5),
                                                      "called")),
                                    << >>))
    /\ UNCHANGED <<RAPID_API_KEY, handler, message, apiResponse, responseText>>

\* the status reply given once the download request is out
DownloadExtractedLateStatus(answer, cb, cb2) ==
    /\ handler = "LIBRARY_DOWNLOAD"
    /\ pc = "generateObject"
    /\ content' = <<answer>>
    /\ IF Falsy(Field(answer, answer.md5))
       THEN /\ End(DownloadCatch(calls, IdentifierNotFound, cb2))
            /\ md5' = md5
       ELSE LET log1 == Append(calls, Call("fetch", DownloadUrl(answer.md5), "called"))
                log2 == Append(log1, Call("callback", StatusReply(answer), cb))
            IN  /\ md5' = answer.md5
                /\ IF cb = "throw"
                   THEN End(DownloadCatch(log2, CallbackError, cb2))
                   ELSE End(Outcome("fetch", log2, << >>))
    /\ UNCHANGED <<RAPID_API_KEY, handler, message, apiResponse, responseText>>

\* the extractor answered: md5 is checked, the status reply is given and the
\* download is sent
DownloadExtracted(answer, cb, cb2) ==
    /\ handler = "LIBRARY_DOWNLOAD"
    /\ pc = "generateObject"
    /\ content' = <<answer>>
    /\ IF Falsy(Field(answer, answer.md5))
       THEN /\ End(DownloadCatch(calls, IdentifierNotFound, cb2))
            /\ md5' = md5
       ELSE LET log1 == Append(calls, Call("callback", StatusReply(answer), cb))
            IN  /\ md5' = answer.md5
                /\ IF cb = "throw"
                   THEN End(DownloadCatch(log1, CallbackError, cb2))
                   ELSE End(Outcome("fetch",
                                    Append(log1, Call("fetch", DownloadUrl(answer.md5),
                                                      "called")),
                                    << >>))
    /\ UNCHANGED <<RAPID_API_KEY, handler, message, apiResponse, responseText>>

DownloadExtractRejects(cb2) ==
    /\ handler = "LIBRARY_DOWNLOAD"
    /\ pc = "generateObject"
    /\ End(DownloadCatch(calls, ModelError, cb2))
    /\ UNCHANGED <<RAPID_API_KEY, handler, message, content, md5, apiResponse, responseText>>

DownloadFetched(status) ==
    /\ handler = "LIBRARY_DOWNLOAD"
    /\ pc = "fetch"
    /\ apiResponse' = status
    /\ pc' = "text"
    /\ UNCHANGED <<RAPID_API_KEY, handler, message, content, md5, responseText, calls, caught>>

DownloadFetchRejects(cb2) ==
    /\ handler = "LIBRARY_DOWNLOAD"
    /\ pc = "fetch"
    /\ End(DownloadCatch(calls, NetworkError, cb2))
    /\ UNCHANGED <<RAPID_API_KEY, handler, message, content, md5, apiResponse, responseText>>

\* the empty list rendered like any other
DownloadRespondNoEmptyCheck(log, status, body, cb, cb2) ==
    LET parsed == JSONParse(body)
        links  == parsed.value
    IN  IF ~parsed.ok
        THEN DownloadCatch(log, ResponseParseError, cb2)
        ELSE IF ~Ok(status)
        THEN DownloadCatch(log, APIError(status, links), cb2)
        ELSE IF links.kind \in {"error", "result"}
        THEN DownloadCatch(log, NotAFunction("links.map"), cb2)
        ELSE LET text == IF links.kind = "null"
                         THEN NoLinks
                         ELSE RenderDownloadLinks(links.links)
                 log1 == Append(log, Call("callback", text, cb))
             IN  IF cb = "throw"
                 THEN DownloadCatch(log1, CallbackError, cb2)
                 ELSE Outcome("returned", log1, << >>)

DownloadRespond(log, status, body, cb, cb2) ==
    LET parsed == JSONParse(body)
        links  == parsed.value
    IN  IF ~parsed.ok
        THEN DownloadCatch(log, ResponseParseError, cb2)
        ELSE IF ~Ok(status)
        THEN DownloadCatch(log, APIError(status, links), cb2)
        ELSE IF links.kind \in {"error", "result"}
        THEN DownloadCatch(log, NotAFunction("links.map"), cb2)
        ELSE LET text == IF links.kind = "null" \/ Len(links.links) = 0
                         THEN NoLinks
                         ELSE RenderDownloadLinks(links.links)
                 log1 == Append(log, Call("callback", text, cb))
             IN  IF cb = "throw"
                 THEN DownloadCatch(log1, CallbackError, cb2)
                 ELSE Outcome("returned", log1, << >>)

DownloadBodyRead(body, cb, cb2) ==
    /\ handler = "LIBRARY_DOWNLOAD"
    /\ pc = "text"
    /\ responseText' = <<body>>
    /\ End(DownloadRespond(calls, apiResponse, body, cb, cb2))
    /\ UNCHANGED <<RAPID_API_KEY, handler, message, content, md5, apiResponse>>

(***************************************************************************)
(* Specifications.  Spec: the host runtime does its part (state            *)
(* composition resolves, the callback accepts every reply); the extractor  *)
(* and the external service answer anything or fail.  SpecHostFaults: the  *)
(* host runtime may fail as well.                                          *)
(***************************************************************************)
Steps(texts, cb, cb2) ==
    \/ \E text \in texts, hasState \in BOOLEAN :
           SearchHandler(text, hasState, cb, cb2)
    \/ SearchStateComposed
    \/ \E answer \in SearchContents : SearchExtracted(answer, cb2)
    \/ SearchExtractRejects(cb2)
    \/ \E status \in Statuses : SearchFetched(status)
    \/ SearchFetchRejects(cb2)
    \/ \E body \in ResponseTexts : SearchBodyRead(body, cb, cb2)
    \/ \E text \in texts, hasState \in BOOLEAN :
           DownloadHandler(text, hasState, cb, cb2)
    \/ DownloadStateComposed(cb2)
    \/ \E answer \in DownloadContents : DownloadExtracted(answer, cb, cb2)
    \/ DownloadExtractRejects(cb2)
    \/ \E status \in Statuses : DownloadFetched(status)
    \/ DownloadFetchRejects(cb2)
    \/ \E body \in ResponseTexts : DownloadBodyRead(body, cb, cb2)

Next == Steps(MessageTexts, "ok", "ok")

Spec == Init /\ [][Next]_vars

NextHostFaults ==
    \/ \E cb \in CallbackOutcomes, cb2 \in CallbackOutcomes :
           Steps(FewTexts, cb, cb2)
    \/ \E error \in {HostError, NullishThrow}, cb2 \in CallbackOutcomes :
           SearchStateRejects(error, cb2)
    \/ \E error \in {HostError, NullishThrow}, cb2 \in CallbackOutcomes :
           DownloadStateRejects(error, cb2)

SpecHostFaults == Init /\ [][NextHostFaults]_vars

(***************************************************************************)
(* What the claims speak of.                                               *)
(***************************************************************************)
CallsTo(fn) == { i \in 1..Len(calls) : calls[i].fn = fn }

NetworkCalls == Cardinality(CallsTo("fetch"))

ExtractorCalls == Cardinality(CallsTo("generateObjectDeprecated"))

CallbackCalls == Cardinality(CallsTo("callback"))

KeyMissing == RAPID_API_KEY \in { Undefined, << >> }

Invoked == handler # "none"

Done == pc \in Finished

LastCall == calls[Len(calls)]

\* the text has a run of HashLen lowercase hexadecimal characters
HasHash(text) == \E i \in 1..Len(text) : IsHashAt(text, i)

\* hash is the leftmost such run of the text
IsLeftmostHash(text, hash) ==
    \E i \in 1..Len(text) :
        /\ IsHashAt(text, i)
        /\ hash = SubSeq(text, i, i + HashLen - 1)
        /\ \A j \in 1..(i - 1) : ~IsHashAt(text, j)

\* the md5 parameter of a download URL
Md5Param(url) == SubSeq(url, Len(DownloadUrlPrefix) + 1, Len(url))

Apology(error) ==
    IF handler = "LIBRARY_SEARCH"
    THEN <<"Sorry, I'm having trouble with the search: ">> \o error.message
    ELSE <<"Sorry, I'm having trouble getting the download links: ">>
         \o error.message

IsApology(text) ==
    /\ text # << >>
    /\ text[1] \in { "Sorry, I'm having trouble with the search: ",
                     "Sorry, I'm having trouble getting the download links: " }

IsStatusReply(text) == text # << >> /\ text[1] = "Downloading \""

BodyRead == responseText # << >>

IsJson(text) == \E v \in JsonValues : Stringify(v) = text

\* the value a JSON body stands for
ValueOf(text) == CHOOSE v \in JsonValues : Stringify(v) = text

\* the extractor answered, and its answer has an md5
Md5Extracted ==
    /\ content # << >>
    /\ ~content[1].isNull
    /\ content[1].md5 \notin { Undefined, << >> }

(***************************************************************************)
(* C1.  Without the credential both handlers stop before any call goes     *)
(* out: an invocation with RAPID_API_KEY unset (or empty) makes no network *)
(* call and no extractor call, gives the configuration error through the   *)
(* callback as its only call, and returns.                                 *)
(***************************************************************************)
C1_MissingKeyShortCircuits ==
    (Invoked /\ KeyMissing) =>
        /\ NetworkCalls = 0
        /\ ExtractorCalls = 0
        /\ calls = <<Call("callback", ConfigurationError, "ok")>>
        /\ pc = "returned"
        /\ caught = << >>

C1_Witness ==
    /\ handler = "LIBRARY_DOWNLOAD"
    /\ RAPID_API_KEY = << >>
    /\ HasHash(message)
    /\ pc = "returned"
    /\ CallbackCalls = 1

(***************************************************************************)
(* C2.  A download text with a run of 32 lowercase hexadecimal characters: *)
(* the extractor is never called, and once the state is composed the one   *)
(* download request carries the leftmost such run as its md5.              *)
(***************************************************************************)
C2_DirectHashUsed ==
    (handler = "LIBRARY_DOWNLOAD" /\ message # Undefined /\ HasHash(message)) =>
        /\ ExtractorCalls = 0
        /\ content = << >>
        /\ \A i \in CallsTo("fetch") :
               IsLeftmostHash(message, Md5Param(calls[i].arg))
        /\ (~KeyMissing /\ pc \notin {"idle", "composeState"}) =>
               /\ NetworkCalls = 1
               /\ IsLeftmostHash(message, md5)

C2_Witness ==
    /\ handler = "LIBRARY_DOWNLOAD"
    /\ message # Undefined
    /\ Cardinality(MatchStarts(message)) > 1
    /\ NetworkCalls = 1
    /\ ExtractorCalls = 0
    /\ pc = "returned"

(***************************************************************************)
(* C3.  A download text without such a run, the credential configured: the *)
(* extractor is called exactly once by the time the invocation is over     *)
(* (never more), and when its answer has no md5 the invocation fails with  *)
(* IdentifierNotFound and makes no network call.                           *)
(***************************************************************************)
C3_ExtractorOnceOrNotFound ==
    (handler = "LIBRARY_DOWNLOAD" /\ ~KeyMissing /\ message # Undefined
     /\ ~HasHash(message)) =>
        /\ ExtractorCalls <= 1
        /\ pc \notin {"idle", "composeState"} => ExtractorCalls = 1
        /\ (content # << >> /\ ~Md5Extracted) =>
               /\ caught = <<IdentifierNotFound>>
               /\ NetworkCalls = 0
               /\ LastCall = Call("callback", Apology(IdentifierNotFound), "ok")
               /\ Done

C3_Witness ==
    /\ handler = "LIBRARY_DOWNLOAD"
    /\ message # Undefined
    /\ ~HasHash(message)
    /\ content # << >>
    /\ ~content[1].isNull
    /\ content[1].md5 = Undefined
    /\ caught = <<IdentifierNotFound>>
    /\ ExtractorCalls = 1
    /\ NetworkCalls = 0

InSuccessRange(status) == status \in OkLow..OkHigh

IsAPIError(error, status) ==
    /\ ~error.nullish
    /\ Len(error.message) >= 3
    /\ error.message[1] = "API request failed with status "
    /\ error.message[2] = ToString(status)

(***************************************************************************)
(* C4.  As claimed: every response whose status is outside the success     *)
(* range makes the handler fail with the APIError that names the status.   *)
(* The body is parsed before the status is looked at, so this fails for a  *)
(* body that is no JSON.                                                   *)
(***************************************************************************)
C4_NonSuccessIsAPIError ==
    (Done /\ BodyRead /\ ~InSuccessRange(apiResponse)) =>
        /\ caught # << >>
        /\ IsAPIError(caught[1], apiResponse)

(***************************************************************************)
(* C4, amended.  A response whose status is outside the success range and  *)
(* whose body is valid JSON makes either handler fail with the APIError    *)
(* that reports the status and the parsed body (serialized again); when    *)
(* the body is no JSON the handler fails with ResponseParseError, whatever *)
(* the status.                                                             *)
(***************************************************************************)
C4_NonSuccessJsonIsAPIError ==
    (Done /\ BodyRead /\ ~InSuccessRange(apiResponse)) =>
        /\ caught # << >>
        /\ LastCall = Call("callback", Apology(caught[1]), "ok")
        /\ IF IsJson(responseText[1])
           THEN /\ IsAPIError(caught[1], apiResponse)
                /\ caught[1].message =
                       <<"API request failed with status ", ToString(apiResponse), ": ">>
                       \o Stringify(ValueOf(responseText[1]))
           ELSE caught[1].message = <<"Failed to parse API response: ", "SyntaxError">>

C4_Witness ==
    /\ handler = "LIBRARY_SEARCH"
    /\ Done
    /\ apiResponse = 404
    /\ BodyRead
    /\ IsJson(responseText[1])
    /\ ValueOf(responseText[1]).kind = "error"
    /\ caught # << >>
    /\ IsAPIError(caught[1], 404)

(***************************************************************************)
(* C5.  A body that is no JSON, in either handler: the invocation fails    *)
(* with ResponseParseError whatever the status, and the one thing it does  *)
(* after the request is to give the apology for that error.                *)
(***************************************************************************)
C5_MalformedJsonStopsProcessing ==
    (BodyRead /\ ~IsJson(responseText[1])) =>
        /\ Done
        /\ caught = <<Error(<<"Failed to parse API response: ", "SyntaxError">>)>>
        /\ LastCall = Call("callback", Apology(caught[1]), "ok")
        /\ Len(calls) >= 2
        /\ calls[Len(calls) - 1].fn = "fetch"

C5_Witness ==
    /\ handler = "LIBRARY_SEARCH"
    /\ BodyRead
    /\ responseText[1] = <<"<html>">>
    /\ apiResponse = 404
    /\ caught = <<ResponseParseError>>
    /\ IsApology(LastCall.arg)

(***************************************************************************)
(* C6.  As claimed: no invocation rejects, and every failure, a failure of *)
(* the callback included, is answered by an apology that the callback      *)
(* accepts.                                                                *)
(***************************************************************************)
C6_NoErrorEscapes ==
    /\ pc # "rejected"
    /\ Done =>
           \A i \in CallsTo("callback") :
               calls[i].outcome # "ok" =>
                   \E j \in CallsTo("callback") :
                       /\ j > i
                       /\ IsApology(calls[j].arg)
                       /\ calls[j].outcome = "ok"

(***************************************************************************)
(* C6, amended.  Every error raised inside the try block (in state         *)
(* composition, extraction, the network call, parsing, validation or       *)
(* rendering, or by the callback throwing there) is caught, and the catch  *)
(* block's last act is to hand the apology for it to the callback.  The    *)
(* invocation rejects to the host exactly when the catch block itself      *)
(* fails: the callback throws on the apology, or what was caught is no     *)
(* error object.  A promise the callback returns is not awaited, so its    *)
(* rejection is not caught.                                                *)
(***************************************************************************)
C6_ErrorsCaughtUnlessCatchFails ==
    /\ caught # << >> => Done
    /\ (Done /\ caught = << >>) => pc = "returned"
    /\ (caught # << >> /\ ~caught[1].nullish) =>
           /\ LastCall.fn = "callback"
           /\ LastCall.arg = Apology(caught[1])
           /\ pc = IF LastCall.outcome = "throw" THEN "rejected" ELSE "returned"
    /\ (caught # << >> /\ caught[1].nullish) =>
           /\ pc = "rejected"
           /\ CallbackCalls = 0
    /\ \A i \in CallsTo("callback") :
           /\ (calls[i].outcome = "throw" /\ i < Len(calls)) =>
                  /\ caught = <<CallbackError>>
                  /\ i = Len(calls) - 1
           /\ (calls[i].outcome = "reject" /\ ~IsApology(calls[i].arg)) =>
                  caught # <<CallbackError>>
                  \/ \E j \in CallsTo("callback") : calls[j].outcome = "throw"

C6_Witness ==
    /\ caught = <<HostError>>
    /\ pc = "returned"
    /\ LastCall = Call("callback", Apology(HostError), "ok")

(***************************************************************************)
(* C7.  As claimed: the callback is invoked exactly once per invocation.   *)
(***************************************************************************)
C7_CallbackExactlyOnce == Done => CallbackCalls = 1

StatusGiven == handler = "LIBRARY_DOWNLOAD" /\ Md5Extracted

FinalReplyThrew ==
    \E i \in CallsTo("callback") :
        /\ calls[i].outcome = "throw"
        /\ ~IsStatusReply(calls[i].arg)
        /\ ~IsApology(calls[i].arg)

(***************************************************************************)
(* C7, amended.  An invocation invokes the callback once for its final     *)
(* reply (results, links, "none found", the configuration error or the     *)
(* apology), and besides that: once before, with the status reply, when    *)
(* LIBRARY_DOWNLOAD took the hash from the extractor; once more, with the  *)
(* apology, when the callback threw on a final reply given inside the try  *)
(* block; and not at all when what was caught is no error object.          *)
(***************************************************************************)
C7_CallbackCount ==
    /\ Done =>
           CallbackCalls =
               (IF caught # << >> /\ caught[1].nullish THEN 0 ELSE 1)
               + (IF StatusGiven THEN 1 ELSE 0)
               + (IF FinalReplyThrew THEN 1 ELSE 0)
    /\ ~Done => CallbackCalls = IF StatusGiven THEN 1 ELSE 0

C7_Witness ==
    /\ handler = "LIBRARY_DOWNLOAD"
    /\ pc = "returned"
    /\ StatusGiven
    /\ CallbackCalls = 2
    /\ \A i \in CallsTo("callback") : calls[i].outcome = "ok"
    /\ caught = << >>

(***************************************************************************)
(* C8.  The status reply "Downloading <title> by <author>..." is given     *)
(* only by LIBRARY_DOWNLOAD, only on a text without a hash, right after an *)
(* extractor answer that has an md5, and before the download request goes  *)
(* out; and it is given whenever the extractor answered with an md5.  The  *)
(* witness is an invocation that gave the status reply and then the        *)
(* apology.                                                                *)
(***************************************************************************)
C8_StatusReplyBetweenExtractionAndRequest ==
    /\ \A i \in CallsTo("callback") :
           IsStatusReply(calls[i].arg) =>
               /\ handler = "LIBRARY_DOWNLOAD"
               /\ ~HasHash(message)
               /\ Md5Extracted
               /\ i > 1
               /\ calls[i - 1].fn = "generateObjectDeprecated"
               /\ calls[i].arg =
                      <<"Downloading \"">> \o content[1].title \o <<"\" by ">>
                      \o content[1].author \o <<"...">>
               /\ \A j \in CallsTo("fetch") : j > i
    /\ (handler = "LIBRARY_DOWNLOAD" /\ Md5Extracted) =>
           /\ \E i \in CallsTo("callback") : IsStatusReply(calls[i].arg)
           /\ NetworkCalls = 1
    /\ (handler = "LIBRARY_DOWNLOAD" /\ ~Md5Extracted) =>
           \A i \in CallsTo("callback") : ~IsStatusReply(calls[i].arg)

C8_Witness ==
    /\ Done
    /\ \E i \in CallsTo("callback") : IsStatusReply(calls[i].arg)
    /\ NetworkCalls = 1
    /\ IsApology(LastCall.arg)
    /\ caught # << >>

RECURSIVE Split(_, _)
Split(text, sep) ==
    IF \A i \in 1..Len(text) : text[i] # sep
    THEN <<text>>
    ELSE LET i == Min({ k \in 1..Len(text) : text[k] = sep })
         IN  <<SubSeq(text, 1, i - 1)>> \o Split(SubSeq(text, i + 1, Len(text)), sep)

SuccessfulBody ==
    /\ Done
    /\ BodyRead
    /\ InSuccessRange(apiResponse)
    /\ IsJson(responseText[1])

(***************************************************************************)
(* C9.  A successful search response with at least one book: the reply has *)
(* one entry per book, the k-th entry is that of the k-th book, and the    *)
(* heading reports the response's total and the number of entries.         *)
(***************************************************************************)
C9_SearchReplyMirrorsResponse ==
    (handler = "LIBRARY_SEARCH" /\ SuccessfulBody
     /\ ValueOf(responseText[1]).kind = "result"
     /\ Len(ValueOf(responseText[1]).books) > 0) =>
        LET data    == ValueOf(responseText[1])
            parts   == Split(LastCall.arg, "\n\n")
            entries == SubSeq(parts, 2, Len(parts) - 1)
        IN  /\ LastCall.fn = "callback"
            /\ caught = << >>
            /\ CallbackCalls = 1
            /\ parts[1] = <<"Found ", ToString(data.total),
                            " books. Here are the top ",
                            ToString(Len(data.books)), " results:">>
            /\ Len(entries) = Len(data.books)
            /\ \A k \in 1..Len(entries) :
                   /\ entries[k][2] = data.books[k].title
                   /\ entries[k][Len(entries[k])] = data.books[k].md5

C9_Witness ==
    /\ handler = "LIBRARY_SEARCH"
    /\ SuccessfulBody
    /\ ValueOf(responseText[1]).kind = "result"
    /\ ValueOf(responseText[1]).total = 57
    /\ Len(ValueOf(responseText[1]).books) = 2
    /\ ValueOf(responseText[1]).books[1] # ValueOf(responseText[1]).books[2]
    /\ pc = "returned"
    /\ CallbackCalls = 1

(***************************************************************************)
(* C10.  A successful response with no books (search) or no links          *)
(* (download) is answered with the fixed message for it, and with no       *)
(* apology: nothing is caught.                                             *)
(***************************************************************************)
C10_EmptyResultIsNoError ==
    /\ (handler = "LIBRARY_SEARCH" /\ SuccessfulBody
        /\ ValueOf(responseText[1]).kind = "result"
        /\ ValueOf(responseText[1]).books = << >>) =>
           /\ LastCall = Call("callback",
                  <<"No results found. Try modifying your search terms or using fewer filters.">>,
                  "ok")
           /\ caught = << >>
           /\ pc = "returned"
           /\ \A i \in CallsTo("callback") : ~IsApology(calls[i].arg)
    /\ (handler = "LIBRARY_DOWNLOAD" /\ SuccessfulBody
        /\ ValueOf(responseText[1]).kind = "array"
        /\ ValueOf(responseText[1]).links = << >>) =>
           /\ LastCall = Call("callback",
                  <<"No download links found for this book.">>, "ok")
           /\ caught = << >>
           /\ pc = "returned"
           /\ \A i \in CallsTo("callback") : ~IsApology(calls[i].arg)

C10_Witness ==
    /\ handler = "LIBRARY_DOWNLOAD"
    /\ SuccessfulBody
    /\ responseText[1] = <<"[", "]">>
    /\ LastCall.arg = NoLinks
    /\ pc = "returned"

====
